---------------------------- MODULE Spec2Model ----------------------------
(***************************************************************************)
(* Huffman compressor / decompressor of the CAD Contest 2023 Problem E     *)
(* repository: BinaryOut and BinaryIn (bit-level I/O), buildTrie,          *)
(* buildTable, writeTrie, compress, readTrie and decompress.               *)
(*                                                                         *)
(* Representation of the C++ types:                                        *)
(*   unsigned char (byte)  0..255                                          *)
(*   char                  -128..127 (the sources note this range)         *)
(*   int                   -2^31..2^31-1                                    *)
(*   unsigned int          <<hi, lo>>, two 16-bit halves                    *)
(*   size_t                <<top, hi, lo>>, top = the bits above bit 31     *)
(*   Node*                 <<ch, freq, left, right>>, nullptr = <<>>        *)
(*   std::string code      a sequence of the characters "0" and "1"         *)
(*                                                                         *)
(* Three specifications share the definitions:                             *)
(*   Spec      compress a file, store the container whole or cut short,    *)
(*             decompress what was stored                                  *)
(*   SpecBits  calls on a BinaryOut, then reads on a BinaryIn over its     *)
(*             bytes                                                       *)
(*   SpecSize  compress and decompress on inputs whose length reaches and  *)
(*             passes the 32-bit length field                              *)
(* The variables of the runs a specification does not make stay "idle".    *)
(***************************************************************************)
EXTENDS Integers, Sequences, FiniteSets, TLC

VARIABLES
    pc,        \* codec run: "start", "compressed", "stored", "done" ("idle")
    bytes,     \* the input of compress(): a sequence of char
    argOrder,  \* the build's evaluation order of readTrie's two argument calls
    enc,       \* what compress() produced
    inFile,    \* the bytes of the file decompress() is run on
    dec,       \* what decompress() produced
    bphase,    \* bit I/O run: "write", "closed", "read", "failed" ("idle")
    bo,        \* the BinaryOut object: buffer, n, and the ofstream's bytes
    wlog,      \* the calls made on bo, in order: <<kind, value>>
    werr,      \* the last call on bo raised a runtime error
    bi,        \* the BinaryIn object: buffer, n, the ifstream
    rlog,      \* what the read calls on bi returned, in order
    spc,       \* size run: "start", "compressed", "decoded" ("idle")
    run,       \* size run input: the char run[1] repeated run[2] times (a size_t)
    senc,      \* size run: what compress() produced
    sdec       \* size run: what decompress() produced

vars == <<pc, bytes, argOrder, enc, inFile, dec,
          bphase, bo, wlog, werr, bi, rlog,
          spc, run, senc, sdec>>

codecVars == <<pc, bytes, argOrder, enc, inFile, dec>>
bitVars == <<bphase, bo, wlog, werr, bi, rlog>>
sizeVars == <<spc, run, senc, sdec>>

(***************************************************************************)
(* Bounds of the model.                                                    *)
(***************************************************************************)
MaxLen == 4
MaxOps == 2

\* The chars inputs are drawn from: 0x00, 'A', 0xA7 and 0xFF as char.
Alphabet == {0, 65, -89, -1}

(***************************************************************************)
(* Integer helpers.                                                        *)
(***************************************************************************)
RECURSIVE BitOr(_, _)
BitOr(a, b) ==
    IF a = 0 THEN b
    ELSE IF b = 0 THEN a
    ELSE (IF a % 2 = 1 \/ b % 2 = 1 THEN 1 ELSE 0) + 2 * BitOr(a \div 2, b \div 2)

\* unsigned char -> char
ToChar(b) == IF b >= 128 THEN b - 256 ELSE b

\* char (or int) -> unsigned char
ToUChar(c) == c % 256

\* size_t value of a small count
SizeT(k) == <<0, k \div 65536, k % 65536>>

\* (unsigned int) of a size_t: the bits above bit 31 are dropped
ToUnsignedInt(sz) == <<sz[2], sz[3]>>

\* x <<= 8 on an int holding x: the low 24 bits move up, bit 31 is the sign
Shl8(x) ==
    LET low == x % 16777216
    IN  IF low >= 8388608 THEN (low - 16777216) * 256 ELSE low * 256

\* x | b on an int x and 0 <= b <= 255
OrLowByte(x, b) == (x - (x % 256)) + BitOr(x % 256, b)

nullptr == <<>>

(***************************************************************************)
(* class BinaryOut.  o = [buffer, n, out]; out is what the ofstream holds. *)
(***************************************************************************)
NewBinaryOut == [buffer |-> 0, n |-> 0, out |-> <<>>]

clearBuffer(o) ==
    IF o.n = 0 THEN o
    ELSE [buffer |-> 0, n |-> 0,
          out |-> Append(o.out, (o.buffer * (2 ^ (8 - o.n))) % 256)]

writeBitHelper(o, x) ==
    LET shifted == (o.buffer * 2) % 256
        o1 == [o EXCEPT !.buffer = IF x THEN BitOr(shifted, 1) ELSE shifted,
                        !.n = o.n + 1]
    IN  IF o1.n = 8 THEN clearBuffer(o1) ELSE o1

RECURSIVE writeByteBits(_, _, _)
writeByteBits(o, x, i) ==
    IF i < 8
    THEN writeByteBits(writeBitHelper(o, ((x \div (2 ^ (8 - i - 1))) % 2) = 1),
                       x, i + 1)
    ELSE o

writeByteHelper(o, x) ==
    IF o.n = 0 THEN [o EXCEPT !.out = Append(o.out, x)]
    ELSE writeByteBits(o, x, 0)

writeBit(o, x) == writeBitHelper(o, x)

\* the argument is converted to unsigned char at the call
writeByte(o, x) == writeByteHelper(o, ToUChar(x))

writeUnsignedInt(o, x) ==
    LET o1 == writeByteHelper(o, (x[1] \div 256) % 256)
        o2 == writeByteHelper(o1, x[1] % 256)
        o3 == writeByteHelper(o2, (x[2] \div 256) % 256)
    IN  writeByteHelper(o3, x[2] % 256)

close(o) == clearBuffer(o)

(***************************************************************************)
(* class BinaryIn.  i = [buffer, n, data, pos, eof]: data is the file,     *)
(* pos the bytes the ifstream has delivered, eof its eofbit.  A read       *)
(* returns [in, val, thrown]; thrown is the runtime_error                  *)
(* "File reached EOF already!".                                            *)
(***************************************************************************)
isEmpty(i) == i.eof

fillBuffer(i) ==
    IF isEmpty(i) THEN [i EXCEPT !.buffer = 0, !.n = -1]
    ELSE IF i.pos < Len(i.data)
         THEN [i EXCEPT !.buffer = i.data[i.pos + 1], !.pos = i.pos + 1, !.n = 8]
         ELSE [i EXCEPT !.eof = TRUE, !.n = 8]

NewBinaryIn(data) ==
    fillBuffer([buffer |-> 0, n |-> 0, data |-> data, pos |-> 0, eof |-> FALSE])

readOneBitBool(i) ==
    IF isEmpty(i) THEN [in |-> i, val |-> FALSE, thrown |-> TRUE]
    ELSE LET n1 == i.n - 1
             x == ((i.buffer \div (2 ^ n1)) % 2) = 1
             i1 == [i EXCEPT !.n = n1]
         IN  [in |-> IF n1 = 0 THEN fillBuffer(i1) ELSE i1,
              val |-> x, thrown |-> FALSE]

\* readChar with the straddling branch leaving n at 8 (n = oldN left out)
readCharKeepsFullBuffer(i) ==
    IF isEmpty(i) THEN [in |-> i, val |-> 0, thrown |-> TRUE]
    ELSE IF i.n = 8
         THEN [in |-> fillBuffer(i), val |-> ToChar(i.buffer), thrown |-> FALSE]
         ELSE LET oldN == i.n
                  x == (i.buffer * (2 ^ (8 - i.n))) % 256
                  i1 == fillBuffer(i)
              IN  IF isEmpty(i1) THEN [in |-> i1, val |-> 0, thrown |-> TRUE]
                  ELSE [in |-> i1,
                        val |-> ToChar(BitOr(x, i1.buffer \div (2 ^ oldN))),
                        thrown |-> FALSE]

readChar(i) ==
    IF isEmpty(i) THEN [in |-> i, val |-> 0, thrown |-> TRUE]
    ELSE IF i.n = 8
         THEN [in |-> fillBuffer(i), val |-> ToChar(i.buffer), thrown |-> FALSE]
         ELSE LET oldN == i.n
                  x == (i.buffer * (2 ^ (8 - i.n))) % 256
                  i1 == fillBuffer(i)
              IN  IF isEmpty(i1) THEN [in |-> i1, val |-> 0, thrown |-> TRUE]
                  ELSE [in |-> [i1 EXCEPT !.n = oldN],
                        val |-> ToChar(BitOr(x, i1.buffer \div (2 ^ oldN))),
                        thrown |-> FALSE]

RECURSIVE readIntLoop(_, _, _)
readIntLoop(i, x, k) ==
    IF k < 4
    THEN LET c == readChar(i)
         IN  IF c.thrown THEN [in |-> c.in, val |-> 0, thrown |-> TRUE]
             ELSE readIntLoop(c.in, OrLowByte(Shl8(x), c.val % 256), k + 1)
    ELSE [in |-> i, val |-> x, thrown |-> FALSE]

readInt(i) == readIntLoop(i, 0, 0)

\* the bits of the file a BinaryIn has handed out so far
BitsConsumed(i) == IF i.eof THEN 8 * Len(i.data) ELSE 8 * i.pos - i.n

(***************************************************************************)
(* class Node.                                                             *)
(***************************************************************************)
Node(ch, freq, left, right) == <<ch, freq, left, right>>

isLeaf(n) == n[3] = nullptr /\ n[4] = nullptr

NodePtrComparator(lhs, rhs) == lhs[2] > rhs[2]


(***************************************************************************)
(* Compression functions.                                                  *)
(***************************************************************************)
\* the chars occurring in a string
Symbols(bs) == {bs[j] : j \in 1..Len(bs)}

\* compress(): for (char c : bytes) freq[c]++
Freq(bs) == [c \in Symbols(bs) |-> Cardinality({j \in 1..Len(bs) : bs[j] = c})]

\* priority_queue::top(): an element the comparator puts below no other.
\* Which of several equal-weight nodes that is depends on the heap's layout
\* and the unordered_map's iteration order: any of them.
Tops(pq) == {x \in pq : \A y \in pq : ~NodePtrComparator(x, y)}

\* buildTrie()'s merge loop: the set of <<pq, merges>> it can end in
RECURSIVE mergeLoop(_, _)
mergeLoop(pq, merges) ==
    IF Cardinality(pq) > 1
    THEN UNION { UNION { mergeLoop((pq \ {left, right})
                                      \cup {Node(0, left[2] + right[2], left, right)},
                                   merges + 1)
                         : right \in Tops(pq \ {left}) }
                 : left \in Tops(pq) }
    ELSE {<<pq, merges>>}

\* buildTrie() on a non-empty frequency table: the <<root, merges>> it can return
buildTrie(freq) ==
    LET pq == {Node(c, freq[c], nullptr, nullptr) : c \in DOMAIN freq}
    IN  {<<CHOOSE r \in e[1] : TRUE, e[2]>> : e \in mergeLoop(pq, 0)}

\* unordered_map<char, string>: a set of <<char, code>>, one pair per key
TableKeys(table) == {p[1] : p \in table}
TableGet(table, ch) == (CHOOSE p \in table : p[1] = ch)[2]
TablePut(table, ch, code) == {p \in table : p[1] # ch} \cup {<<ch, code>>}

\* buildTable with the left recursion passing code instead of code + "0"
RECURSIVE buildTableDropsLeftBit(_, _, _)
buildTableDropsLeftBit(table, n, code) ==
    IF isLeaf(n) THEN TablePut(table, n[1], code)
    ELSE buildTableDropsLeftBit(buildTableDropsLeftBit(table, n[3], code),
                                n[4], code \o <<"1">>)

RECURSIVE buildTable(_, _, _)
buildTable(table, n, code) ==
    IF isLeaf(n) THEN TablePut(table, n[1], code)
    ELSE buildTable(buildTable(table, n[3], code \o <<"0">>), n[4], code \o <<"1">>)

RECURSIVE writeTrie(_, _)
writeTrie(n, out) ==
    IF isLeaf(n) THEN writeByte(writeBit(out, TRUE), n[1])
    ELSE writeTrie(n[4], writeTrie(n[3], writeBit(out, FALSE)))

\* compress(): for (char bit : code) writeBit(bit == '0' ? 0 : 1)
RECURSIVE writeCode(_, _, _)
writeCode(out, code, j) ==
    IF j <= Len(code)
    THEN writeCode(writeBit(out, code[j] # "0"), code, j + 1)
    ELSE out

\* compress(): for (char byte : bytes) write table[byte]
RECURSIVE writePayload(_, _, _, _)
writePayload(out, bs, table, j) ==
    IF j <= Len(bs)
    THEN writePayload(writeCode(out, TableGet(table, bs[j]), 1), bs, table, j + 1)
    ELSE out

\* compress() from the root buildTrie returned: the table, the trie, the
\* length, the payload, close().  size is bytes.length().
compressFrom(bs, size, root, merges, emptyTop) ==
    LET table == buildTable({}, root, <<>>)
        o1 == writeTrie(root, NewBinaryOut)
        length == ToUnsignedInt(size)
        o2 == writeUnsignedInt(o1, length)
        o3 == close(writePayload(o2, bs, table, 1))
    IN  [status |-> "ok", root |-> root, merges |-> merges, table |-> table,
         trieBits |-> 8 * Len(o1.out) + o1.n, length |-> length,
         file |-> o3.out, pqEmptyTop |-> emptyTop]

\* pq.top() on an empty priority_queue ended the process before any byte
\* was written
compressCrashed ==
    [status |-> "crash", root |-> nullptr, merges |-> 0, table |-> {},
     trieBits |-> 0, length |-> <<0, 0>>, file |-> <<>>, pqEmptyTop |-> TRUE]

(***************************************************************************)
(* Decompression functions.                                                *)
(***************************************************************************)
\* readTrie(): new Node(0, -1, readTrie(in), readTrie(in)).  C++ leaves the
\* order of the two argument calls to the build: order = "LR" evaluates the
\* left argument first, "RL" the right one.  Returns [in, node, thrown].
RECURSIVE readTrie(_, _)
readTrie(in, order) ==
    LET b == readOneBitBool(in)
    IN  IF b.thrown THEN [in |-> b.in, node |-> nullptr, thrown |-> TRUE]
        ELSE IF b.val
        THEN LET c == readChar(b.in)
             IN  IF c.thrown THEN [in |-> c.in, node |-> nullptr, thrown |-> TRUE]
                 ELSE [in |-> c.in, node |-> Node(c.val, -1, nullptr, nullptr),
                       thrown |-> FALSE]
        ELSE LET first == readTrie(b.in, order)
             IN  IF first.thrown THEN first
                 ELSE LET second == readTrie(first.in, order)
                      IN  IF second.thrown THEN second
                          ELSE [in |-> second.in,
                                node |-> IF order = "LR"
                                         THEN Node(0, -1, first.node, second.node)
                                         ELSE Node(0, -1, second.node, first.node),
                                thrown |-> FALSE]

\* traverse as a do-while: a path bit is read before the leaf test
RECURSIVE traverseReadsFirst(_, _, _)
traverseReadsFirst(in, n, bits) ==
    LET b == readOneBitBool(in)
    IN  IF b.thrown THEN [in |-> b.in, node |-> n, bits |-> bits, thrown |-> TRUE]
        ELSE IF isLeaf(n)
        THEN [in |-> b.in, node |-> n, bits |-> bits + 1, thrown |-> FALSE]
        ELSE LET child == IF b.val THEN n[4] ELSE n[3]
             IN  IF isLeaf(child)
                 THEN [in |-> b.in, node |-> child, bits |-> bits + 1, thrown |-> FALSE]
                 ELSE traverseReadsFirst(b.in, child, bits + 1)

\* decompress(): while (!n->isLeaf()) descend.  Returns [in, node, bits, thrown].
RECURSIVE traverse(_, _, _)
traverse(in, n, bits) ==
    IF isLeaf(n) THEN [in |-> in, node |-> n, bits |-> bits, thrown |-> FALSE]
    ELSE LET b == readOneBitBool(in)
         IN  IF b.thrown THEN [in |-> b.in, node |-> n, bits |-> bits, thrown |-> TRUE]
             ELSE traverse(b.in, IF b.val THEN n[4] ELSE n[3], bits + 1)

\* decompress(): for (int i = 0; i < length; i++).  Returns
\* [out, bits, emitted, thrown]: the BinaryOut, the path bits read, the
\* iterations completed.
RECURSIVE decodeLoop(_, _, _, _, _, _)
decodeLoop(in, out, root, i, length, bits) ==
    IF i < length
    THEN LET t == traverse(in, root, bits)
         IN  IF t.thrown
             THEN [out |-> out, bits |-> t.bits, emitted |-> i, thrown |-> TRUE]
             ELSE decodeLoop(t.in, writeByte(out, t.node[1]), root, i + 1, length, t.bits)
    ELSE [out |-> out, bits |-> bits, emitted |-> i, thrown |-> FALSE]

decodeFailed(root, trieBits, length, out, bits, emitted) ==
    [status |-> "EndOfInput", root |-> root, trieBits |-> trieBits,
     length |-> length, out |-> out, pathBits |-> bits, emitted |-> emitted]

decompress(in, out, order) ==
    LET t == readTrie(in, order)
    IN  IF t.thrown THEN decodeFailed(nullptr, 0, 0, out.out, 0, 0)
        ELSE LET len == readInt(t.in)
             IN  IF len.thrown
                 THEN decodeFailed(t.node, BitsConsumed(t.in), 0, out.out, 0, 0)
                 ELSE LET d == decodeLoop(len.in, out, t.node, 0, len.val, 0)
                      IN  IF d.thrown
                          THEN decodeFailed(t.node, BitsConsumed(t.in), len.val,
                                            d.out.out, d.bits, d.emitted)
                          ELSE [status |-> "ok", root |-> t.node,
                                trieBits |-> BitsConsumed(t.in), length |-> len.val,
                                out |-> close(d.out).out, pathBits |-> d.bits,
                                emitted |-> d.emitted]

notDecoded ==
    [status |-> "none", root |-> nullptr, trieBits |-> 0, length |-> 0,
     out |-> <<>>, pathBits |-> 0, emitted |-> 0]

notCompressed ==
    [status |-> "none", root |-> nullptr, merges |-> 0, table |-> {},
     trieBits |-> 0, length |-> <<0, 0>>, file |-> <<>>, pqEmptyTop |-> FALSE]

(***************************************************************************)
(* The codec run: compress a file, store the container (whole, or cut      *)
(* short), decompress what was stored.                                     *)
(***************************************************************************)
RECURSIVE SeqsUpTo(_, _)
SeqsUpTo(S, k) ==
    IF k = 0 THEN {<<>>}
    ELSE LET shorter == SeqsUpTo(S, k - 1)
         IN  shorter \cup {Append(s, c) : s \in shorter, c \in S}

BitIdle ==
    /\ bphase = "idle" /\ bo = NewBinaryOut /\ wlog = <<>>
    /\ werr = FALSE /\ bi = NewBinaryIn(<<>>) /\ rlog = <<>>

SizeIdle ==
    /\ spc = "idle" /\ run = <<0, <<0, 0, 0>>>>
    /\ senc = notCompressed /\ sdec = notDecoded

Init ==
    /\ pc = "start"
    /\ bytes \in SeqsUpTo(Alphabet, MaxLen)
    /\ argOrder \in {"LR", "RL"}
    /\ enc = notCompressed
    /\ inFile = <<>>
    /\ dec = notDecoded
    /\ BitIdle
    /\ SizeIdle

Compress ==
    /\ pc = "start"
    /\ \/ /\ bytes # <<>>
          /\ \E r \in buildTrie(Freq(bytes)) :
                enc' = compressFrom(bytes, SizeT(Len(bytes)), r[1], r[2], FALSE)
       \/ /\ bytes = <<>>
          /\ enc' = compressCrashed
       \/ /\ bytes = <<>>
          /\ \E c \in Alphabet :
                enc' = compressFrom(bytes, SizeT(0), Node(c, 0, nullptr, nullptr), 0, TRUE)
    /\ pc' = "compressed"
    /\ UNCHANGED <<bytes, argOrder, inFile, dec, bitVars, sizeVars>>

\* the file decompress is run on: the first k bytes of the container
Store(k) ==
    /\ pc = "compressed"
    /\ inFile' = SubSeq(enc.file, 1, k)
    /\ pc' = "stored"
    /\ UNCHANGED <<bytes, argOrder, enc, dec, bitVars, sizeVars>>

Decompress ==
    /\ pc = "stored"
    /\ dec' = decompress(NewBinaryIn(inFile), NewBinaryOut, argOrder)
    /\ pc' = "done"
    /\ UNCHANGED <<bytes, argOrder, enc, inFile, bitVars, sizeVars>>

Next ==
    \/ Compress
    \/ \E k \in 0..Len(enc.file) : Store(k)
    \/ Decompress

Spec == Init /\ [][Next]_vars

(***************************************************************************)
(* What the container format prescribes, stated apart from the code:       *)
(* bits packed MSB-first, zero-padded on the right to a whole byte.        *)
(***************************************************************************)
BitsOf(v, w) == [k \in 1..w |-> (v \div (2 ^ (w - k))) % 2]

Bits32(x) == BitsOf(x[1], 16) \o BitsOf(x[2], 16)

ByteOfBits(bits, j) ==
    LET b(k) == IF 8 * (j - 1) + k <= Len(bits) THEN bits[8 * (j - 1) + k] ELSE 0
    IN  128 * b(1) + 64 * b(2) + 32 * b(3) + 16 * b(4)
          + 8 * b(5) + 4 * b(6) + 2 * b(7) + b(8)

PackMSB(bits) == [j \in 1..((Len(bits) + 7) \div 8) |-> ByteOfBits(bits, j)]

IsPrefix(a, b) == Len(a) <= Len(b) /\ SubSeq(b, 1, Len(a)) = a

\* shape and leaf symbols of a trie, weights left out
RECURSIVE Shape(_)
Shape(n) ==
    IF n = nullptr THEN <<>>
    ELSE IF isLeaf(n) THEN <<"leaf", n[1]>>
    ELSE <<"node", Shape(n[3]), Shape(n[4])>>

Decoded == pc = "done" /\ inFile = enc.file

(***************************************************************************)
(* Claims checked under Spec.                                              *)
(***************************************************************************)
\* C1: for every non-empty byte sequence B, decompress over the bytes that
\* compress(B) wrote produces exactly B: same length, same byte at every
\* position.
C1_RoundTrip ==
    (Decoded /\ bytes # <<>>) =>
        /\ dec.status = "ok"
        /\ Len(dec.out) = Len(bytes)
        /\ \A j \in 1..Len(bytes) : dec.out[j] = ToUChar(bytes[j])

\* The round trip does hold in a build that evaluates readTrie's left
\* argument first (not a claim of its own: the part of C1 the code keeps).
RoundTripLeftFirst ==
    (Decoded /\ bytes # <<>> /\ argOrder = "LR") =>
        /\ dec.status = "ok"
        /\ dec.out = [j \in 1..Len(bytes) |-> ToUChar(bytes[j])]

\* C2: compress on a zero-length input has a defined outcome: rejected with
\* an error before any container byte is written, or a container with a
\* valid tree and length 0; it never reads the root from an empty priority
\* structure.
C2_EmptyInputDefined ==
    (pc # "start" /\ bytes = <<>>) =>
        /\ ~enc.pqEmptyTop
        /\ \/ enc.status = "rejected" /\ enc.file = <<>>
           \/ enc.status = "ok" /\ enc.root # nullptr /\ enc.length = <<0, 0>>

\* C3: for every container C written by compress and every proper
\* byte-prefix of C, decompress ends in the EndOfInput error and never
\* completes normally.
C3_TruncatedRaisesEndOfInput ==
    (pc = "done" /\ Len(inFile) < Len(enc.file)) => dec.status = "EndOfInput"

\* The same with readTrie's left argument evaluated first (not a claim of its
\* own: the part of C3 the code keeps).
TruncatedLeftFirst ==
    (pc = "done" /\ argOrder = "LR" /\ Len(inFile) < Len(enc.file)) =>
        dec.status = "EndOfInput"

C5_PrefixFree ==
    (pc # "start" /\ Cardinality(Symbols(bytes)) >= 2) =>
        /\ TableKeys(enc.table) = Symbols(bytes)
        /\ Cardinality(enc.table) = Cardinality(Symbols(bytes))
        /\ \A p, q \in enc.table : p[1] # q[1] => ~IsPrefix(p[2], q[2])

C5_Witness ==
    /\ pc = "compressed" /\ Cardinality(Symbols(bytes)) = 3
    /\ \E p, q \in enc.table : Len(p[2]) = 1 /\ Len(q[2]) = 2

\* C10: readTrie over the bits written by writeTrie(T) consumes exactly those
\* bits and returns a tree of the same shape and leaf symbols: the subtree
\* serialized first becomes the left child, the one serialized second the
\* right child.
C10_ReadTrieInvertsWriteTrie ==
    (Decoded /\ enc.status = "ok") =>
        /\ dec.root # nullptr
        /\ dec.trieBits = enc.trieBits
        /\ Shape(dec.root) = Shape(enc.root)

(***************************************************************************)
(* The bit I/O run: calls on one BinaryOut, then a BinaryIn over the bytes *)
(* it wrote, read with the calls matching the writes.                      *)
(***************************************************************************)
ByteValues == {167, 255}
UIntValues == {<<258, 772>>, <<32768, 1>>}

\* Bits written first, to bring the buffer to each of its alignments
LeadPattern == <<TRUE, FALSE, TRUE, TRUE, FALSE, FALSE, TRUE>>

\* how many of the log's first calls are writeBit calls of LeadPattern
RECURSIVE LeadFrom(_, _)
LeadFrom(log, j) ==
    IF j <= Len(log) /\ j <= Len(LeadPattern) /\ log[j] = <<"bit", LeadPattern[j]>>
    THEN LeadFrom(log, j + 1)
    ELSE j - 1

Lead(log) == LeadFrom(log, 1)

IsWrite(e) == e[1] # "close"
Writes(log) == SelectSeq(log, IsWrite)
Closed(log) == \E j \in 1..Len(log) : log[j][1] = "close"

CodecIdle ==
    /\ pc = "idle" /\ bytes = <<>> /\ argOrder = "LR"
    /\ enc = notCompressed /\ inFile = <<>> /\ dec = notDecoded

InitBits ==
    /\ bphase = "write"
    /\ bo = NewBinaryOut
    /\ wlog = <<>>
    /\ werr = FALSE
    /\ bi = NewBinaryIn(<<>>)
    /\ rlog = <<>>
    /\ CodecIdle
    /\ SizeIdle

\* BinaryOut has no closed state and no throw: a write is accepted whenever
\* it is called
CanWrite ==
    /\ bphase \in {"write", "closed"}
    /\ Len(Writes(wlog)) - Lead(wlog) < MaxOps

CanLead(x) ==
    /\ bphase = "write"
    /\ Lead(wlog) = Len(wlog)
    /\ Len(wlog) < Len(LeadPattern)
    /\ x = LeadPattern[Len(wlog) + 1]

WriteBit(x) ==
    /\ CanWrite \/ CanLead(x)
    /\ bo' = writeBit(bo, x)
    /\ wlog' = Append(wlog, <<"bit", x>>)
    /\ werr' = FALSE
    /\ bphase' = "write"
    /\ UNCHANGED <<bi, rlog, codecVars, sizeVars>>

WriteByte(v) ==
    /\ CanWrite
    /\ bo' = writeByte(bo, v)
    /\ wlog' = Append(wlog, <<"byte", v>>)
    /\ werr' = FALSE
    /\ bphase' = "write"
    /\ UNCHANGED <<bi, rlog, codecVars, sizeVars>>

WriteUnsignedInt(x) ==
    /\ CanWrite
    /\ bo' = writeUnsignedInt(bo, x)
    /\ wlog' = Append(wlog, <<"uint", x>>)
    /\ werr' = FALSE
    /\ bphase' = "write"
    /\ UNCHANGED <<bi, rlog, codecVars, sizeVars>>

Close ==
    /\ bphase = "write"
    /\ bo' = close(bo)
    /\ wlog' = Append(wlog, <<"close">>)
    /\ werr' = FALSE
    /\ bphase' = "closed"
    /\ UNCHANGED <<bi, rlog, codecVars, sizeVars>>

\* BinaryIn's constructor, over the bytes the ofstream holds
OpenIn ==
    /\ bphase = "closed"
    /\ bi' = NewBinaryIn(bo.out)
    /\ bphase' = "read"
    /\ UNCHANGED <<bo, wlog, werr, rlog, codecVars, sizeVars>>

NextRead == Writes(wlog)[Len(rlog) + 1][1]

Reading == bphase = "read" /\ Len(rlog) < Len(Writes(wlog))

Returned(kind, r) ==
    /\ bi' = r.in
    /\ rlog' = Append(rlog, <<kind, r.val>>)
    /\ bphase' = IF r.thrown THEN "failed" ELSE "read"
    /\ UNCHANGED <<bo, wlog, werr, codecVars, sizeVars>>

ReadOneBitBool == Reading /\ NextRead = "bit" /\ Returned("bit", readOneBitBool(bi))

ReadChar == Reading /\ NextRead = "byte" /\ Returned("byte", readChar(bi))

ReadInt == Reading /\ NextRead = "uint" /\ Returned("uint", readInt(bi))

NextBits ==
    \/ \E x \in BOOLEAN : WriteBit(x)
    \/ \E v \in ByteValues : WriteByte(v)
    \/ \E x \in UIntValues : WriteUnsignedInt(x)
    \/ Close
    \/ OpenIn
    \/ ReadOneBitBool
    \/ ReadChar
    \/ ReadInt

SpecBits == InitBits /\ [][NextBits]_vars

\* the bits a logged write call stands for, MSB first
CallBits(e) ==
    IF e[1] = "bit" THEN <<IF e[2] THEN 1 ELSE 0>>
    ELSE IF e[1] = "byte" THEN BitsOf(e[2], 8)
    ELSE Bits32(e[2])

RECURSIVE LogBits(_)
LogBits(log) ==
    IF log = <<>> THEN <<>> ELSE CallBits(Head(log)) \o LogBits(Tail(log))

\* the 32 bits of an int, as two 16-bit halves
IntBits(x) == <<(x \div 65536) % 65536, x % 65536>>

\* a read returned what the matching write was given: the same bit, the same
\* eight bits (readChar returns them as a char), the same 32 bits (readInt
\* returns them as an int)
SameValue(r, w) ==
    /\ r[1] = w[1]
    /\ IF w[1] = "bit" THEN r[2] = w[2]
       ELSE IF w[1] = "byte" THEN ToUChar(r[2]) = w[2]
       ELSE IntBits(r[2]) = w[2]

\* writes on a fresh BinaryOut, then close(), and nothing after it
WrittenThenClosed ==
    /\ bphase \in {"closed", "read", "failed"}
    /\ \A j \in 1..Len(wlog) : (wlog[j][1] = "close") <=> (j = Len(wlog))

(***************************************************************************)
(* Claims checked under SpecBits.                                          *)
(***************************************************************************)
\* C6: after any sequence of writeBit / writeByte / writeUnsignedInt calls on
\* a fresh BinaryOut followed by close(), the bytes written are the written
\* bits packed MSB-first and zero-padded on the right to a whole byte, and the
\* matching readOneBitBool / readChar / readInt calls on a BinaryIn over those
\* bytes return the same values in the same order, at every bit alignment.
C6_BitPackingSymmetry ==
    WrittenThenClosed =>
        /\ bo.out = PackMSB(LogBits(Writes(wlog)))
        /\ bphase # "failed"
        /\ \A j \in 1..Len(rlog) : SameValue(rlog[j], Writes(wlog)[j])

\* 0xA7 read back across two stream bytes with 3 bits left in the buffer,
\* after a 32-bit value read at the same alignment
C6_Witness ==
    /\ WrittenThenClosed /\ bphase = "read" /\ Len(rlog) = 7
    /\ Lead(wlog) = 5 /\ wlog[6][1] = "uint" /\ wlog[7] = <<"byte", 167>>
    /\ rlog[7] = <<"byte", -89>> /\ bi.n = 3 /\ bi.pos = 6

\* C8: after close() has been called on a BinaryOut, any later writeBit,
\* writeByte or writeUnsignedInt fails with a runtime error and appends no
\* byte to the output stream.
C8_WriteAfterCloseFails ==
    [][(Closed(wlog) /\ Len(Writes(wlog')) > Len(Writes(wlog)))
          => (werr' /\ bo'.out = bo.out)]_vars

(***************************************************************************)
(* The size run: compress and decompress on an input of one char repeated  *)
(* N times, N a size_t up to and past the 32-bit length field.  The input  *)
(* is kept as <<char, N>>, never as a sequence, and the two per-byte loops *)
(* are taken as a whole.                                                   *)
(***************************************************************************)
\* N = top * 2^32 + hi * 2^16 + lo, N >= 1
Sizes ==
    {<<top, hi, lo>> : top \in {0, 1}, hi \in {0, 258, 32767, 32768, 65535},
                       lo \in {0, 1, 772, 65535}} \ {<<0, 0, 0>>}

\* the int a 32-bit pattern holds
IntOf(x) == IF x[1] >= 32768 THEN (x[1] - 65536) * 65536 + x[2] ELSE x[1] * 65536 + x[2]

\* compress() on the char s repeated size times.  freq[s]++ runs size times
\* on an int (past 2^31 - 1 the increment overflows; the value kept here is
\* the wrapped one, and nothing below reads it: a one-node queue is never
\* compared).  Every iteration of the payload loop writes table[s]; one
\* iteration stands for all of them, the code of a lone leaf being empty.
compressRun(s, size) ==
    LET freq == [c \in {s} |-> IntOf(ToUnsignedInt(size))]
        r == CHOOSE r \in buildTrie(freq) : TRUE
    IN  compressFrom(<<s>>, size, r[1], r[2], FALSE)

\* for (int i = 0; i < length; i++): the iterations the loop makes
Iterations(length) == IF length > 0 THEN length ELSE 0

\* decompress() on a container whose trie is one leaf: each iteration emits
\* the leaf's char and reads nothing, so the output is kept as <<byte, count>>
decompressRun(in, order) ==
    LET t == readTrie(in, order)
    IN  IF t.thrown THEN decodeFailed(nullptr, 0, 0, <<0, 0>>, 0, 0)
        ELSE LET len == readInt(t.in)
             IN  IF len.thrown \/ ~isLeaf(t.node)
                 THEN decodeFailed(t.node, BitsConsumed(t.in), 0, <<0, 0>>, 0, 0)
                 ELSE [status |-> "ok", root |-> t.node,
                       trieBits |-> BitsConsumed(t.in), length |-> len.val,
                       out |-> <<ToUChar(t.node[1]), Iterations(len.val)>>,
                       pathBits |-> 0, emitted |-> Iterations(len.val)]

InitSize ==
    /\ spc = "start"
    /\ run \in Alphabet \X Sizes
    /\ senc = notCompressed
    /\ sdec = notDecoded
    /\ pc = "idle" /\ bytes = <<>> /\ argOrder \in {"LR", "RL"}
    /\ enc = notCompressed /\ inFile = <<>> /\ dec = notDecoded
    /\ BitIdle

CompressRun ==
    /\ spc = "start"
    /\ senc' = compressRun(run[1], run[2])
    /\ spc' = "compressed"
    /\ UNCHANGED <<run, sdec, codecVars, bitVars>>

DecompressRun ==
    /\ spc = "compressed"
    /\ sdec' = decompressRun(NewBinaryIn(senc.file), argOrder)
    /\ spc' = "decoded"
    /\ UNCHANGED <<run, senc, codecVars, bitVars>>

NextSize == CompressRun \/ DecompressRun

SpecSize == InitSize /\ [][NextSize]_vars

\* the bits of a byte sequence, MSB first
RECURSIVE FileBits(_)
FileBits(f) == IF f = <<>> THEN <<>> ELSE BitsOf(Head(f), 8) \o FileBits(Tail(f))

(***************************************************************************)
(* Claims checked under SpecSize.                                          *)
(***************************************************************************)
\* C7: for every v in 0..2^32-1, writeUnsignedInt(v) emits the four bytes of
\* v most-significant first and readInt over them yields v as an unsigned
\* 32-bit value; the decoder, given a container whose length field holds L,
\* runs its emit loop exactly L times for every L in 0..2^32-1.
C7_LengthRoundTrip ==
    (spc = "decoded" /\ run[2][1] = 0) =>
        LET L == ToUnsignedInt(run[2])
        IN  /\ SubSeq(FileBits(senc.file), 10, 41) = Bits32(L)
            /\ sdec.status = "ok"
            /\ sdec.length >= 0 /\ IntBits(sdec.length) = L
            /\ sdec.emitted >= 0 /\ IntBits(sdec.emitted) = L

\* The part of C7 the code keeps (not a claim of its own): the four bytes are
\* written most-significant first and readInt returns their 32 bits, and
\* below 2^31 the loop runs L times.
LengthBitsRoundTrip ==
    (spc = "decoded" /\ run[2][1] = 0) =>
        LET L == ToUnsignedInt(run[2])
        IN  /\ SubSeq(FileBits(senc.file), 10, 41) = Bits32(L)
            /\ sdec.status = "ok"
            /\ IntBits(sdec.length) = L
            /\ L[1] < 32768 => IntBits(sdec.emitted) = L

\* C9: when the input length is 2^32 or more, compress reports
\* UnsupportedSize before any container byte is written; it never writes a
\* length field holding the input length reduced modulo 2^32.
C9_UnsupportedSize ==
    (spc # "start" /\ run[2][1] > 0) =>
        /\ senc.status = "UnsupportedSize"
        /\ senc.file = <<>>

=============================================================================
